---- MODULE Spec2Model ----
(***************************************************************************)
(* Model of the work-order analysis engine of analysis.py: chapter (ATA)   *)
(* normalisation and exclusion, chapter correction from citations in the   *)
(* free text, action classification, grouping by (aircraft, corrected      *)
(* chapter), chronological ordering and the conclusion policy.             *)
(*                                                                         *)
(* Python strings are modelled as sequences of one-character strings, so   *)
(* that substring tests, regular-expression matches, upper/lower casing    *)
(* and the chapter reformatting are computed character by character.       *)
(* A missing cell (None / NaN, what pd.isna accepts) is the value NaN.     *)
(* A timestamp is an integer day * TicksPerDay + time-of-day; a date that  *)
(* could not be parsed is NaT.                                             *)
(***************************************************************************)
EXTENDS Integers, Sequences, FiniteSets, TLC

VARIABLES
    fn,     \* the function a unit specification calls ("none" in the pipeline)
    args,   \* its arguments
    ret,    \* <<>> before the call returns, <<value>> afterwards
    pc,          \* position inside analyze_work_orders ("idle" in a unit specification)
    columns,     \* the column names of the caller's table, in order
    df,          \* the caller's table: a sequence of rows
    df_filtered, \* the rows that passed filter_data, with the derived columns
    pending,     \* the group keys the loop over grouped has not reached yet
    results      \* the list of AnalysisResult built so far

unitVars == <<fn, args, ret>>

pipeVars == <<pc, columns, df, df_filtered, pending, results>>

vars == <<fn, args, ret, pc, columns, df, df_filtered, pending, results>>

\* a unit specification leaves the pipeline untouched
PipelineIdle ==
    /\ pc = "idle" /\ columns = <<>> /\ df = <<>>
    /\ df_filtered = <<>> /\ pending = <<>> /\ results = <<>>

-----------------------------------------------------------------------------
(* Characters and strings                                                  *)

UpperLetters ==
    <<"A","B","C","D","E","F","G","H","I","J","K","L","M",
      "N","O","P","Q","R","S","T","U","V","W","X","Y","Z">>

LowerLetters ==
    <<"a","b","c","d","e","f","g","h","i","j","k","l","m",
      "n","o","p","q","r","s","t","u","v","w","x","y","z">>

DigitChars == <<"0","1","2","3","4","5","6","7","8","9">>

Range(s) == {s[i] : i \in DOMAIN s}

\* a function with domain 1..n as an explicit sequence
AsSeq(f) == SubSeq(f, 1, Len(f))

\* str.isdigit() of one character / the class \d
Digits == Range(DigitChars)

IsDigit(c) == c \in Digits

\* the class \s and the characters str.strip() removes
IsSpace(c) == c \in {" ", "\n", "\t"}

\* a missing value: None or NaN in a cell
NaN == <<"NaN">>

IsNa(x) == x = NaN

\* str(x): a missing float cell prints as "nan"
Str(x) == IF IsNa(x) THEN <<"n","a","n">> ELSE x

LowerChar(c) ==
    IF \E i \in DOMAIN UpperLetters : UpperLetters[i] = c
    THEN LowerLetters[CHOOSE i \in DOMAIN UpperLetters : UpperLetters[i] = c]
    ELSE c

UpperChar(c) ==
    IF \E i \in DOMAIN LowerLetters : LowerLetters[i] = c
    THEN UpperLetters[CHOOSE i \in DOMAIN LowerLetters : LowerLetters[i] = c]
    ELSE c

\* str.lower()
RECURSIVE Lower(_)
Lower(s) == IF s = <<>> THEN <<>> ELSE <<LowerChar(Head(s))>> \o Lower(Tail(s))

\* str.upper()
RECURSIVE Upper(_)
Upper(s) == IF s = <<>> THEN <<>> ELSE <<UpperChar(Head(s))>> \o Upper(Tail(s))

RECURSIVE LStrip(_)
LStrip(s) ==
    IF s = <<>> THEN s
    ELSE IF IsSpace(Head(s)) THEN LStrip(Tail(s)) ELSE s

RECURSIVE RStrip(_)
RStrip(s) ==
    IF s = <<>> THEN s
    ELSE IF IsSpace(s[Len(s)]) THEN RStrip(SubSeq(s, 1, Len(s) - 1)) ELSE s

\* str.strip()
Strip(s) == RStrip(LStrip(s))

\* str.replace(c, "")
RemoveChar(s, c) == SelectSeq(s, LAMBDA x : x # c)

\* sub in s
Contains(s, sub) ==
    \E i \in 1..(Len(s) - Len(sub) + 1) : SubSeq(s, i, i + Len(sub) - 1) = sub

\* s.startswith(prefix)
StartsWith(s, prefix) ==
    Len(s) >= Len(prefix) /\ SubSeq(s, 1, Len(prefix)) = prefix

\* str.isdigit()
IsDigitStr(s) == s # <<>> /\ \A i \in DOMAIN s : IsDigit(s[i])

\* s.split('-')[0]
BeforeDash(s) ==
    LET d == CHOOSE i \in DOMAIN s :
                 s[i] = "-" /\ \A j \in 1..(i - 1) : s[j] # "-"
    IN  SubSeq(s, 1, d - 1)

-----------------------------------------------------------------------------
(* Keyword tables and chapter exclusion list                               *)

RESET_KEYWORDS ==
    << <<"r","e","s","e","t">>,
       <<"o","p","s"," ","t","e","s","t">>,
       <<"o","p","e","r","a","t","i","o","n","a","l"," ","t","e","s","t">>,
       <<"o","p"," ","t","e","s","t">>,
       <<"b","i","t","e"," ","t","e","s","t">>,
       <<"r","e","s","e","t"," ","c","b">>,
       <<"r","e","c","y","c","l","e">>,
       <<"p","o","w","e","r"," ","r","e","s","e","t">>,
       <<"s","y","s","t","e","m"," ","r","e","s","e","t">> >>

CORRECTIVE_KEYWORDS ==
    << <<"r","e","p","l","a","c","e">>,
       <<"r","e","p","l","a","c","e","d">>,
       <<"r","e","p","l","a","c","e","m","e","n","t">>,
       <<"r","p","l">>,
       <<"c","h","a","n","g","e">>,
       <<"c","h","a","n","g","e","d">>,
       <<"i","n","s","t","a","l","l","a","t","i","o","n">>,
       <<"i","n","s","t","a","l","l">>,
       <<"i","n","s","t","a","l","l","e","d">>,
       <<"r","e","p","a","i","r">>,
       <<"r","e","p","a","i","r","e","d">>,
       <<"f","i","x">>,
       <<"f","i","x","e","d">>,
       <<"r","e","c","t","i","f","y">>,
       <<"r","e","c","t","i","f","i","e","d">>,
       <<"w","i","r","i","n","g">>,
       <<"r","e","w","i","r","e">>,
       <<"r","e","w","i","r","e","d">>,
       <<"c","h","a","f","f","i","n","g">>,
       <<"c","h","a","f","i","n","g">>,
       <<"a","d","j","u","s","t">>,
       <<"a","d","j","u","s","t","e","d">>,
       <<"m","o","d","i","f","i","c","a","t","i","o","n">>,
       <<"m","o","d","i","f","i","e","d">>,
       <<"m","o","d">>,
       <<"s","w","a","p">>,
       <<"s","w","a","p","p","e","d">> >>

EXCLUDED_ATA_PREFIXES ==
    << <<"0","0">>, <<"0","5">>, <<"0","8">>, <<"0","9">>, <<"1","0">>,
       <<"1","1">>, <<"1","2">>, <<"1","3">>, <<"1","4">>, <<"1","5">>,
       <<"1","6">>, <<"1","7">>, <<"1","8">>, <<"1","9">>, <<"2","5">>,
       <<"3","3">>, <<"5","0">>, <<"5","1">>, <<"5","2">>, <<"5","3">>,
       <<"5","4">>, <<"5","5">>, <<"5","6">>, <<"5","7">>, <<"5","8">>,
       <<"5","9">> >>

-----------------------------------------------------------------------------
(* Chapter code normaliser                                                 *)

\* the stripped text returned whole
get_ata_2digit_whole(ata) == IF IsNa(ata) THEN <<>> ELSE Strip(Str(ata))

get_ata_2digit(ata) ==
    IF IsNa(ata) THEN <<>>
    ELSE LET ata_str == Strip(Str(ata))
         IN  IF Contains(ata_str, <<"-">>) THEN BeforeDash(ata_str)
             ELSE IF Len(ata_str) >= 2 THEN SubSeq(ata_str, 1, 2)
             ELSE ata_str

\* format_ata without the "-00" completion of a two-character code
format_ata_no_suffix(ata) ==
    IF IsNa(ata) THEN <<>>
    ELSE LET ata_str == RemoveChar(Strip(Str(ata)), " ")
         IN  IF Contains(ata_str, <<"-">>) THEN ata_str
             ELSE IF Len(ata_str) = 4 /\ IsDigitStr(ata_str)
                  THEN SubSeq(ata_str, 1, 2) \o <<"-">> \o SubSeq(ata_str, 3, 4)
             ELSE ata_str

\* format_ata without the split of a four-digit code
format_ata_no_split(ata) ==
    IF IsNa(ata) THEN <<>>
    ELSE LET ata_str == RemoveChar(Strip(Str(ata)), " ")
         IN  IF Contains(ata_str, <<"-">>) THEN ata_str
             ELSE IF Len(ata_str) = 2 THEN ata_str \o <<"-","0","0">>
             ELSE ata_str

format_ata(ata) ==
    IF IsNa(ata) THEN <<>>
    ELSE LET ata_str == RemoveChar(Strip(Str(ata)), " ")
         IN  IF Contains(ata_str, <<"-">>) THEN ata_str
             ELSE IF Len(ata_str) = 4 /\ IsDigitStr(ata_str)
                  THEN SubSeq(ata_str, 1, 2) \o <<"-">> \o SubSeq(ata_str, 3, 4)
             ELSE IF Len(ata_str) = 2 THEN ata_str \o <<"-","0","0">>
             ELSE ata_str

-----------------------------------------------------------------------------
(* Chapter corrector                                                       *)

\* reference_patterns: the citation keywords of each priority tier, in order
HighKeywords == << <<"T","S","M">>, <<"A","F","I">>, <<"F","I","M">> >>

MediumKeywords == << <<"I","P","C">>, <<"I","P","D">> >>

LowKeywords == << <<"A","M","M">> >>

\* \s* from position i: the first position that holds no white space
RECURSIVE SkipSpaces(_, _)
SkipSpaces(t, i) ==
    IF i <= Len(t) /\ IsSpace(t[i]) THEN SkipSpaces(t, i + 1) ELSE i

\* a literal at position i: the position after it, or 0
MatchLiteral(t, i, lit) ==
    IF i + Len(lit) - 1 <= Len(t) /\ SubSeq(t, i, i + Len(lit) - 1) = lit
    THEN i + Len(lit) ELSE 0

\* ata_pattern (\d{2}[-]?\d{2}) at position i: <<captured, next>> or <<>>
MatchAta(t, i) ==
    IF i + 1 <= Len(t) /\ IsDigit(t[i]) /\ IsDigit(t[i + 1])
    THEN IF /\ i + 4 <= Len(t) /\ t[i + 2] = "-"
            /\ IsDigit(t[i + 3]) /\ IsDigit(t[i + 4])
         THEN <<SubSeq(t, i, i + 4), i + 5>>
         ELSE IF i + 3 <= Len(t) /\ IsDigit(t[i + 2]) /\ IsDigit(t[i + 3])
         THEN <<SubSeq(t, i, i + 3), i + 4>>
         ELSE <<>>
    ELSE <<>>

\* patterns[p] for keyword kw, tried at position i: <<captured, next>> or <<>>
\*   1: kw \s* : \s* ata      2: kw \s+ TASK \s+ ata      3: kw \s+ ata
MatchPattern(t, i, kw, p) ==
    LET a == MatchLiteral(t, i, kw)
        b == SkipSpaces(t, a)
    IN  IF a = 0 THEN <<>>
        ELSE IF p = 1 THEN
            LET c == MatchLiteral(t, b, <<":">>)
            IN  IF c = 0 THEN <<>> ELSE MatchAta(t, SkipSpaces(t, c))
        ELSE IF p = 2 THEN
            LET c == MatchLiteral(t, b, <<"T","A","S","K">>)
                d == SkipSpaces(t, c)
            IN  IF b = a \/ c = 0 \/ d = c THEN <<>> ELSE MatchAta(t, d)
        ELSE IF b = a THEN <<>> ELSE MatchAta(t, b)

\* re.findall(pattern, text): the captures of the non-overlapping matches,
\* scanning from the left
RECURSIVE FindAll(_, _, _, _)
FindAll(t, i, kw, p) ==
    IF i > Len(t) THEN <<>>
    ELSE LET m == MatchPattern(t, i, kw, p)
         IN  IF m = <<>> THEN FindAll(t, i + 1, kw, p)
             ELSE <<m[1]>> \o FindAll(t, m[2], kw, p)

\* the clean-up of one match: separators stripped, first four digits as xx-xx
FormatMatch(match) ==
    LET ata_code == RemoveChar(RemoveChar(match, " "), "-")
    IN  IF Len(ata_code) >= 4 /\ IsDigitStr(ata_code)
        THEN <<SubSeq(ata_code, 1, 2) \o <<"-">> \o SubSeq(ata_code, 3, 4)>>
        ELSE <<>>

RECURSIVE FormatMatches(_)
FormatMatches(matches) ==
    IF matches = <<>> THEN <<>>
    ELSE FormatMatch(Head(matches)) \o FormatMatches(Tail(matches))

\* the three patterns tried in the opposite order
FoundForKeyword_space_first(t, kw) ==
    FormatMatches(FindAll(t, 1, kw, 3))
        \o FormatMatches(FindAll(t, 1, kw, 2))
        \o FormatMatches(FindAll(t, 1, kw, 1))

\* for pattern in patterns: matches of one keyword, pattern by pattern
FoundForKeyword(t, kw) ==
    FormatMatches(FindAll(t, 1, kw, 1))
        \o FormatMatches(FindAll(t, 1, kw, 2))
        \o FormatMatches(FindAll(t, 1, kw, 3))

\* found_atas[priority]: for keyword in keywords, in order
RECURSIVE FoundAtas(_, _, _)
FoundAtas(t, keywords, k) ==
    IF k > Len(keywords) THEN <<>>
    ELSE FoundForKeyword(t, keywords[k]) \o FoundAtas(t, keywords, k + 1)

\* the text that is searched: empty when either argument is missing
CombinedText(description, action) ==
    IF ~IsNa(description) /\ ~IsNa(action)
    THEN Upper(Str(description) \o <<" ">> \o Str(action))
    ELSE <<>>

extract_ata_from_text_low_first(description, action, original_ata) ==
    LET combined_text == CombinedText(description, action)
        high == FoundAtas(combined_text, HighKeywords, 1)
        medium == FoundAtas(combined_text, MediumKeywords, 1)
        low == FoundAtas(combined_text, LowKeywords, 1)
    IN  IF low # <<>> THEN low[1]
        ELSE IF medium # <<>> THEN medium[1]
        ELSE IF high # <<>> THEN high[1]
        ELSE format_ata(original_ata)

extract_ata_from_text(description, action, original_ata) ==
    LET combined_text == CombinedText(description, action)
        high == FoundAtas(combined_text, HighKeywords, 1)
        medium == FoundAtas(combined_text, MediumKeywords, 1)
        low == FoundAtas(combined_text, LowKeywords, 1)
    IN  IF high # <<>> THEN high[1]
        ELSE IF medium # <<>> THEN medium[1]
        ELSE IF low # <<>> THEN low[1]
        ELSE format_ata(original_ata)

-----------------------------------------------------------------------------
(* Boilerplate remover                                                     *)

\* the class \w
IsWordChar(c) ==
    c \in Range(UpperLetters) \cup Range(LowerLetters) \cup Digits \cup {"_"}

\* the end of the longest run of one character class from position i
RECURSIVE SkipClass(_, _, _)
SkipClass(t, i, kind) ==
    IF i <= Len(t)
       /\ \/ kind = "space" /\ IsSpace(t[i])
          \/ kind = "digits" /\ IsDigit(t[i])
          \/ kind = "word" /\ IsWordChar(t[i])
    THEN SkipClass(t, i + 1, kind) ELSE i

\* re.match of a pattern given as a sequence of literals and of the classes
\* \s+, \d+, \w+, from position i of t
RECURSIVE MatchElems(_, _, _)
MatchElems(t, i, elems) ==
    IF elems = <<>> THEN TRUE
    ELSE LET e == Head(elems)
             j == IF e.kind = "lit" THEN MatchLiteral(t, i, e.text)
                  ELSE LET k == SkipClass(t, i, e.kind) IN IF k = i THEN 0 ELSE k
         IN  IF j = 0 THEN FALSE ELSE MatchElems(t, j, Tail(elems))

\* ^\d+\s+WORKSTEP\s+ADDED\s+BY\s+\w+\s+ON\s+
WorkstepPattern ==
    << [kind |-> "digits", text |-> <<>>],
       [kind |-> "space", text |-> <<>>],
       [kind |-> "lit", text |-> <<"W","O","R","K","S","T","E","P">>],
       [kind |-> "space", text |-> <<>>],
       [kind |-> "lit", text |-> <<"A","D","D","E","D">>],
       [kind |-> "space", text |-> <<>>],
       [kind |-> "lit", text |-> <<"B","Y">>],
       [kind |-> "space", text |-> <<>>],
       [kind |-> "word", text |-> <<>>],
       [kind |-> "space", text |-> <<>>],
       [kind |-> "lit", text |-> <<"O","N">>],
       [kind |-> "space", text |-> <<>>] >>

\* ^ACTION\s+PERFORMED\s+BY\s+\w+\s+ON\s+
ActionPerformedPattern ==
    << [kind |-> "lit", text |-> <<"A","C","T","I","O","N">>],
       [kind |-> "space", text |-> <<>>],
       [kind |-> "lit", text |-> <<"P","E","R","F","O","R","M","E","D">>],
       [kind |-> "space", text |-> <<>>],
       [kind |-> "lit", text |-> <<"B","Y">>],
       [kind |-> "space", text |-> <<>>],
       [kind |-> "word", text |-> <<>>],
       [kind |-> "space", text |-> <<>>],
       [kind |-> "lit", text |-> <<"O","N">>],
       [kind |-> "space", text |-> <<>>] >>

\* ^DESCRIPTION\s+SIGN\s+\w+
DescriptionSignPattern ==
    << [kind |-> "lit", text |-> <<"D","E","S","C","R","I","P","T","I","O","N">>],
       [kind |-> "space", text |-> <<>>],
       [kind |-> "lit", text |-> <<"S","I","G","N">>],
       [kind |-> "space", text |-> <<>>],
       [kind |-> "word", text |-> <<>>] >>

\* ^PERFORMED\s+SIGN\s+\w+
PerformedSignPattern ==
    << [kind |-> "lit", text |-> <<"P","E","R","F","O","R","M","E","D">>],
       [kind |-> "space", text |-> <<>>],
       [kind |-> "lit", text |-> <<"S","I","G","N">>],
       [kind |-> "space", text |-> <<>>],
       [kind |-> "word", text |-> <<>>] >>

\* the test of one line in the loop of clean_amos_metadata
IsMetadataLine(line) ==
    LET line_upper == Upper(Strip(line))
    IN  \/ MatchElems(line_upper, 1, WorkstepPattern)
        \/ MatchElems(line_upper, 1, ActionPerformedPattern)
        \/ MatchElems(line_upper, 1, DescriptionSignPattern)
        \/ MatchElems(line_upper, 1, PerformedSignPattern)

\* str.split('\n')
RECURSIVE SplitLines(_)
SplitLines(t) ==
    IF \A i \in DOMAIN t : t[i] # "\n" THEN <<t>>
    ELSE LET n == CHOOSE i \in DOMAIN t : t[i] = "\n" /\ \A j \in 1..(i - 1) : t[j] # "\n"
         IN  <<SubSeq(t, 1, n - 1)>> \o SplitLines(SubSeq(t, n + 1, Len(t)))

\* '\n'.join(lines)
RECURSIVE JoinLines(_)
JoinLines(lines) ==
    IF lines = <<>> THEN <<>>
    ELSE IF Len(lines) = 1 THEN lines[1]
    ELSE lines[1] \o <<"\n">> \o JoinLines(Tail(lines))

\* re.sub(r'\n\s*\n+', '\n', t) from position i: a line break followed by
\* white space up to a last line break becomes one line break
RECURSIVE CollapseBlankLines(_, _)
CollapseBlankLines(t, i) ==
    IF i > Len(t) THEN <<>>
    ELSE LET j == SkipSpaces(t, i + 1)
             breaks == {k \in (i + 1)..(j - 1) : t[k] = "\n"}
         IN  IF t[i] = "\n" /\ breaks # {}
             THEN <<"\n">> \o CollapseBlankLines(t, (CHOOSE k \in breaks : \A o \in breaks : o <= k) + 1)
             ELSE <<t[i]>> \o CollapseBlankLines(t, i + 1)

clean_amos_metadata(text) ==
    IF IsNa(text) \/ text = <<>> THEN <<>>
    ELSE LET lines == SplitLines(Strip(text))
             cleaned_lines == SelectSeq(lines, LAMBDA line : ~IsMetadataLine(line))
         IN  CollapseBlankLines(Strip(JoinLines(cleaned_lines)), 1)

-----------------------------------------------------------------------------
(* Unit specification of clean_amos_metadata over texts of a few lines     *)

MaxLines == 3

LineCatalogue ==
    { <<"1"," ","W","O","R","K","S","T","E","P"," ","A","D","D","E","D"," ","B","Y"," ","J","D"," ","O","N"," ","0","1">>,
      <<"W","o","r","k","s","t","e","p"," ","a","d","d","e","d"," ","b","y"," ","J","D"," ","o","n"," ","0","1">>,
      <<"a","c","t","i","o","n"," ","p","e","r","f","o","r","m","e","d"," ","b","y"," ","J","D"," ","o","n"," ","0","1">>,
      <<"D","E","S","C","R","I","P","T","I","O","N"," ","S","I","G","N"," ","J","D">>,
      <<"P","e","r","f","o","r","m","e","d"," ","s","i","g","n"," ","J","D">>,
      <<"R","E","P","L","A","C","E","D"," ","P","U","M","P">>,
      <<"S","E","E"," ","P","E","R","F","O","R","M","E","D"," ","S","I","G","N"," ","J","D">>,
      <<>>,
      <<" ","P","E","R","F","O","R","M","E","D"," ","S","I","G","N"," ","J","D">> }

MultiLineTexts ==
    {JoinLines(ls) : ls \in UNION {[1..k -> LineCatalogue] : k \in 1..MaxLines}} \cup {NaN}

InitClean ==
    /\ fn = "clean_amos_metadata"
    /\ args \in MultiLineTexts
    /\ ret = <<>>
    /\ PipelineIdle

CallClean ==
    /\ fn = "clean_amos_metadata"
    /\ ret = <<>>
    /\ ret' = <<clean_amos_metadata(args)>>
    /\ UNCHANGED <<fn, args>>
    /\ UNCHANGED pipeVars

NextClean == CallClean

SpecClean == InitClean /\ [][NextClean]_vars

\* a line that begins, letter case and leading white space ignored, with one of
\* the four boilerplate phrases: "workstep added by <user> on ", "action
\* performed by <user> on ", "description sign <user>", "performed sign <user>"
BeginsWithBoilerplate(line) ==
    LET u == Upper(LStrip(line))
    IN  \/ MatchElems(u, 1, Tail(Tail(WorkstepPattern)))
        \/ MatchElems(u, 1, ActionPerformedPattern)
        \/ MatchElems(u, 1, DescriptionSignPattern)
        \/ MatchElems(u, 1, PerformedSignPattern)

IsBlank(line) == \A i \in DOMAIN line : IsSpace(line[i])

\* C14: the lines of the result are the non-blank lines of the text that do not
\* begin with a boilerplate phrase, unchanged and in the original order.
C14_RemovesExactlyBoilerplateLines ==
    (fn = "clean_amos_metadata" /\ ret # <<>> /\ ~IsNa(args)) =>
        LET kept == SelectSeq(SplitLines(args),
                              LAMBDA line : ~IsBlank(line) /\ ~BeginsWithBoilerplate(line))
        IN  ret[1] = JoinLines(kept)

-----------------------------------------------------------------------------
(* Action classifier                                                       *)

\* for keyword in keywords: if keyword in text: return True
RECURSIVE AnyKeywordIn(_, _, _)
AnyKeywordIn(keywords, k, text) ==
    IF k > Len(keywords) THEN FALSE
    ELSE IF Contains(text, keywords[k]) THEN TRUE
    ELSE AnyKeywordIn(keywords, k + 1, text)

classify_action_reset_first(action) ==
    IF IsNa(action) THEN "UNKNOWN"
    ELSE LET action_lower == Lower(Str(action))
         IN  IF AnyKeywordIn(RESET_KEYWORDS, 1, action_lower)
             THEN "RESET_ONLY"
             ELSE IF AnyKeywordIn(CORRECTIVE_KEYWORDS, 1, action_lower)
             THEN "CORRECTIVE_ACTION"
             ELSE "UNKNOWN"

classify_action(action) ==
    IF IsNa(action) THEN "UNKNOWN"
    ELSE LET action_lower == Lower(Str(action))
         IN  IF AnyKeywordIn(CORRECTIVE_KEYWORDS, 1, action_lower)
             THEN "CORRECTIVE_ACTION"
             ELSE IF AnyKeywordIn(RESET_KEYWORDS, 1, action_lower)
             THEN "RESET_ONLY"
             ELSE "UNKNOWN"

-----------------------------------------------------------------------------
(* Chapter filter                                                          *)

should_exclude_ata_prefix_only(ata) ==
    IF IsNa(ata) THEN FALSE
    ELSE get_ata_2digit(ata) \in Range(EXCLUDED_ATA_PREFIXES)

should_exclude_ata(ata) ==
    IF IsNa(ata) THEN FALSE
    ELSE LET ata_str == Strip(Str(ata))
             ata_2digit == get_ata_2digit(ata)
             ata_formatted == format_ata(ata_str)
         IN  IF ata_2digit \in Range(EXCLUDED_ATA_PREFIXES) THEN TRUE
             ELSE IF StartsWith(ata_formatted, <<"4","4","-","2">>) THEN TRUE
             ELSE IF StartsWith(ata_formatted, <<"2","3","-","3">>) THEN TRUE
             ELSE IF StartsWith(ata_formatted, <<"3","2","-","4","1">>) THEN TRUE
             ELSE FALSE

-----------------------------------------------------------------------------
(* Unit specification of should_exclude_ata: every well-formed chapter     *)
(* code 00-00 .. 99-99 in each accepted encoding.                          *)

TwoDigits == {<<a, b>> : a \in Range(DigitChars), b \in Range(DigitChars)}

WellFormedAtas ==
    {mj \o <<"-">> \o mn : mj \in TwoDigits, mn \in TwoDigits}
    \cup {mj \o mn : mj \in TwoDigits, mn \in TwoDigits}
    \cup TwoDigits

InitExclude ==
    /\ fn = "should_exclude_ata"
    /\ args \in WellFormedAtas
    /\ ret = <<>>
    /\ PipelineIdle

CallExclude ==
    /\ fn = "should_exclude_ata"
    /\ ret = <<>>
    /\ ret' = <<should_exclude_ata(args)>>
    /\ UNCHANGED <<fn, args>>
    /\ UNCHANGED pipeVars

NextExclude == CallExclude

SpecExclude == InitExclude /\ [][NextExclude]_vars

\* numeric reading of a chapter code, used to state the exclusion rule
DigitVal(c) == (CHOOSE i \in DOMAIN DigitChars : DigitChars[i] = c) - 1

Num2(s) == 10 * DigitVal(s[1]) + DigitVal(s[2])

MajorOf(code) == Num2(SubSeq(code, 1, 2))

HasMinor(code) == Len(code) > 2

MinorOf(code) ==
    IF Len(code) = 5 THEN Num2(SubSeq(code, 4, 5)) ELSE Num2(SubSeq(code, 3, 4))

ExcludedMajors ==
    {Num2(EXCLUDED_ATA_PREFIXES[i]) : i \in DOMAIN EXCLUDED_ATA_PREFIXES}

ExclusionRule(code) ==
    \/ MajorOf(code) \in ExcludedMajors
    \/ /\ HasMinor(code)
       /\ \/ MajorOf(code) = 44 /\ MinorOf(code) \in 20..29
          \/ MajorOf(code) = 23 /\ MinorOf(code) \in 30..39
          \/ MajorOf(code) = 32 /\ MinorOf(code) = 41

\* C10: for every well-formed chapter code (xx-xx, xxxx, xx) should_exclude_ata
\* returns true exactly when the major chapter is in the exclusion list, or the
\* code is 44-20..44-29, 23-30..23-39 or 32-41; so 05-xx, 44-2x and 32-41 are
\* excluded and 44-30 is not.
C10_ExcludeExactlyByRule ==
    (fn = "should_exclude_ata" /\ ret # <<>>) =>
        /\ ret[1] = ExclusionRule(args)
        /\ (args = <<"4","4","-","3","0">> => ret[1] = FALSE)
        /\ (MajorOf(args) = 5 => ret[1] = TRUE)

\* a 4-digit code of the 44-2x band has been excluded
C10_Witness ==
    fn = "should_exclude_ata" /\ args = <<"4","4","2","5">> /\ ret = <<TRUE>>

\* C22: every well-formed code whose major chapter is 05, 06 or 50..59, or that
\* is 44-2x, 23-3x or 32-41, is excluded by should_exclude_ata.
C22_GuideListIsExcluded ==
    (fn = "should_exclude_ata" /\ ret # <<>> /\ args \in WellFormedAtas) =>
        ((\/ MajorOf(args) \in {5, 6} \cup (50..59)
          \/ /\ HasMinor(args)
             /\ \/ MajorOf(args) = 44 /\ MinorOf(args) \in 20..29
                \/ MajorOf(args) = 23 /\ MinorOf(args) \in 30..39
                \/ MajorOf(args) = 32 /\ MinorOf(args) = 41)
         => ret[1] = TRUE)

-----------------------------------------------------------------------------
(* Unit specification of the chapter code normaliser: format_ata and       *)
(* get_ata_2digit are called on a raw code, and once more on what they     *)
(* returned. ret holds the successive return values.                       *)

MaxAtaLen == 5

\* the characters raw codes are written with here
AtaChars == {"2", "5", "-", " ", "X"}

\* every string of at most n characters of AtaChars
AtaStrings(n) == UNION {[1..k -> AtaChars] : k \in 0..n}

RawAtas == WellFormedAtas \cup AtaStrings(MaxAtaLen) \cup {NaN}

Normalizers == {"format_ata", "get_ata_2digit"}

ApplyNormalizer(f, x) == IF f = "format_ata" THEN format_ata(x) ELSE get_ata_2digit(x)

InitNormalize ==
    /\ fn \in Normalizers
    /\ args \in RawAtas
    /\ ret = <<>>
    /\ PipelineIdle

CallNormalize ==
    /\ fn \in Normalizers
    /\ ret = <<>>
    /\ ret' = <<ApplyNormalizer(fn, args)>>
    /\ UNCHANGED <<fn, args>>
    /\ UNCHANGED pipeVars

\* the same operation applied to its own result
CallNormalizeAgain ==
    /\ fn \in Normalizers
    /\ Len(ret) = 1
    /\ ret' = Append(ret, ApplyNormalizer(fn, ret[1]))
    /\ UNCHANGED <<fn, args>>
    /\ UNCHANGED pipeVars

NextNormalize == CallNormalize \/ CallNormalizeAgain

SpecNormalize == InitNormalize /\ [][NextNormalize]_vars

\* C12: format_ata returns an already-hyphenated code xx-xx unchanged, turns a
\* 4-digit code d1d2d3d4 into d1d2-d3d4 (7234 -> 72-34) and a 2-digit code d1d2
\* into d1d2-00 (72 -> 72-00).
C12_FormatAtaCanonical ==
    (fn = "format_ata" /\ ret # <<>> /\ args \in WellFormedAtas) =>
        /\ Len(args) = 5 => ret[1] = args
        /\ Len(args) = 4 =>
               ret[1] = <<args[1], args[2], "-", args[3], args[4]>>
        /\ Len(args) = 2 => ret[1] = <<args[1], args[2], "-", "0", "0">>
        /\ Len(ret[1]) = 5 /\ ret[1][3] = "-"
        /\ \A i \in {1, 2, 4, 5} : IsDigit(ret[1][i])

\* 7234 has been formatted as 72-34
C12_Witness ==
    /\ fn = "format_ata"
    /\ args = <<"7","2","3","4">>
    /\ ret # <<>> /\ ret[1] = <<"7","2","-","3","4">>

\* C13: for every input string, applying format_ata, or get_ata_2digit, to its
\* own result returns that result unchanged.
C13_NormalizersIdempotent ==
    (fn \in Normalizers /\ Len(ret) = 2) => ret[2] = ret[1]

-----------------------------------------------------------------------------
(* Unit specification of should_exclude_ata over arbitrary raw codes       *)

InitExcludeRaw ==
    /\ fn = "should_exclude_ata"
    /\ args \in AtaStrings(MaxAtaLen) \cup {NaN}
    /\ ret = <<>>
    /\ PipelineIdle

SpecExcludeRaw == InitExcludeRaw /\ [][NextExclude]_vars

\* a raw code that is missing, empty, non-numeric or in none of the accepted
\* formats xx-xx, xxxx, xx
Malformed(ata) == IsNa(ata) \/ Strip(ata) \notin WellFormedAtas

\* C20: should_exclude_ata returns false for every malformed raw chapter code.
C20_MalformedPassesFilter ==
    (fn = "should_exclude_ata" /\ ret # <<>> /\ Malformed(args)) => ret[1] = FALSE

-----------------------------------------------------------------------------
(* Texts built from fragments                                              *)

RECURSIVE Flatten(_)
Flatten(fs) == IF fs = <<>> THEN <<>> ELSE Head(fs) \o Flatten(Tail(fs))

\* every concatenation of at most n fragments of F
TextsOf(F, n) == {Flatten(fs) : fs \in UNION {[1..k -> F] : k \in 0..n}}

-----------------------------------------------------------------------------
(* Unit specification of classify_action                                   *)

MaxActionFrags == 3

ActionFragments ==
    { <<"R","e","p","l","a","c","e","d">>,
      <<"R","E","S","E","T">>,
      <<"b","i","t","e"," ","t","e","s","t">>,
      <<"r","e">>,
      <<"S","e","t">>,
      <<" ">>,
      <<"f","i">>,
      <<"X">>,
      <<"o","p","s">>,
      <<"t","e","s","t">>,
      <<"c","h","e","c","k","e","d">> }

ActionTexts == TextsOf(ActionFragments, MaxActionFrags) \cup {NaN}

InitClassify ==
    /\ fn = "classify_action"
    /\ args \in ActionTexts
    /\ ret = <<>>
    /\ PipelineIdle

CallClassify ==
    /\ fn = "classify_action"
    /\ ret = <<>>
    /\ ret' = <<classify_action(args)>>
    /\ UNCHANGED <<fn, args>>
    /\ UNCHANGED pipeVars

NextClassify == CallClassify

SpecClassify == InitClassify /\ [][NextClassify]_vars

\* the keyword kw occurs in text at position i, letter case ignored
OccursAt(kw, text, i) ==
    /\ i + Len(kw) - 1 <= Len(text)
    /\ \A j \in 1..Len(kw) : LowerChar(text[i + j - 1]) = kw[j]

\* some keyword of the table is a case-insensitive substring of the text
HasKeyword(keywords, text) ==
    /\ ~IsNa(text)
    /\ \E k \in DOMAIN keywords : \E i \in 1..Len(text) : OccursAt(keywords[k], text, i)

\* C9: classify_action returns CORRECTIVE_ACTION whenever a corrective keyword
\* occurs (case-insensitively) in the action text, even next to reset keywords;
\* RESET_ONLY exactly when no corrective keyword and some reset keyword occurs;
\* UNKNOWN exactly when neither occurs or the text is empty or missing.
C9_ClassifyByKeywords ==
    (fn = "classify_action" /\ ret # <<>>) =>
        LET c == HasKeyword(CORRECTIVE_KEYWORDS, args)
            r == HasKeyword(RESET_KEYWORDS, args)
        IN  /\ c => ret[1] = "CORRECTIVE_ACTION"
            /\ ret[1] = "RESET_ONLY" <=> (~c /\ r)
            /\ ret[1] = "UNKNOWN" <=> (~c /\ ~r)
            /\ (IsNa(args) \/ args = <<>>) => ret[1] = "UNKNOWN"

\* a text holding both "Replaced" and "RESET" was classified corrective
C9_Witness ==
    /\ fn = "classify_action"
    /\ args = <<"R","E","S","E","T"," ","R","e","p","l","a","c","e","d">>
    /\ ret = <<"CORRECTIVE_ACTION">>

-----------------------------------------------------------------------------
(* Conclusion engine                                                       *)

\* model resolution of the time of day, and the days an input may carry
TicksPerDay == 2

MaxDay == 2

\* pd.to_datetime(..., errors='coerce') of an unparsable cell
NaT == 0

Timestamps == {d * TicksPerDay + t : d \in 1..MaxDay, t \in 0..(TicksPerDay - 1)}

\* Timestamp.date(): the calendar day; NaT.date() is NaT
DateOf(ts) == IF ts = NaT THEN NaT ELSE ts \div TicksPerDay

\* a > b on calendar dates: NaT > NaT is False, and ordering NaT against a
\* datetime.date raises TypeError
DateGreater(a, b) ==
    IF a = NaT /\ b = NaT THEN "False"
    ELSE IF a = NaT \/ b = NaT THEN "TypeError"
    ELSE IF a > b THEN "True" ELSE "False"

\* for e in events: last_corrective_event = e if corrective
LastCorrectiveIndex(events) ==
    CHOOSE i \in DOMAIN events :
        /\ events[i].action_type = "CORRECTIVE_ACTION"
        /\ \A j \in (i + 1)..Len(events) : events[j].action_type # "CORRECTIVE_ACTION"

\* for e in events: if e.issued_date.date() > last_corrective_date: return ...
RECURSIVE ScanAfter(_, _, _)
ScanAfter(events, i, last_corrective_date) ==
    IF i > Len(events) THEN "CORRECTIVE_OK"
    ELSE LET cmp == DateGreater(DateOf(events[i].issued_date), last_corrective_date)
         IN  IF cmp = "TypeError" THEN "TypeError"
             ELSE IF cmp = "True" THEN "CORRECTIVE_NOT_EFFECTIVE"
             ELSE ScanAfter(events, i + 1, last_corrective_date)

\* the scan done on full timestamps instead of calendar dates
RECURSIVE ScanAfterTimestamp(_, _, _)
ScanAfterTimestamp(events, i, last_ts) ==
    IF i > Len(events) THEN "CORRECTIVE_OK"
    ELSE LET cmp == DateGreater(events[i].issued_date, last_ts)
         IN  IF cmp = "TypeError" THEN "TypeError"
             ELSE IF cmp = "True" THEN "CORRECTIVE_NOT_EFFECTIVE"
             ELSE ScanAfterTimestamp(events, i + 1, last_ts)

HasCorrective(events) ==
    \E i \in DOMAIN events : events[i].action_type = "CORRECTIVE_ACTION"

determine_conclusion_timestamps(events) ==
    IF Len(events) = 1 THEN "SINGLE_EVENT"
    ELSE IF ~HasCorrective(events) THEN "RESET_ONLY_REPEAT"
    ELSE ScanAfterTimestamp(events, 1, events[LastCorrectiveIndex(events)].issued_date)

determine_conclusion_no_single(events) ==
    IF ~HasCorrective(events) THEN
        IF Len(events) = 1 THEN "SINGLE_EVENT" ELSE "RESET_ONLY_REPEAT"
    ELSE ScanAfter(events, 1, DateOf(events[LastCorrectiveIndex(events)].issued_date))

determine_conclusion_last_only(events) ==
    IF Len(events) = 1 THEN "SINGLE_EVENT"
    ELSE IF events[Len(events)].action_type # "CORRECTIVE_ACTION"
         THEN "RESET_ONLY_REPEAT"
    ELSE ScanAfter(events, 1, DateOf(events[LastCorrectiveIndex(events)].issued_date))

\* recurrence read as any event placed after the last corrective event
determine_conclusion_after_in_order(events) ==
    IF Len(events) = 1 THEN "SINGLE_EVENT"
    ELSE IF ~HasCorrective(events) THEN "RESET_ONLY_REPEAT"
    ELSE IF LastCorrectiveIndex(events) < Len(events) THEN "CORRECTIVE_NOT_EFFECTIVE"
    ELSE "CORRECTIVE_OK"

\* the reference date taken from the first corrective event
determine_conclusion_first_corrective(events) ==
    IF Len(events) = 1 THEN "SINGLE_EVENT"
    ELSE IF ~HasCorrective(events) THEN "RESET_ONLY_REPEAT"
    ELSE LET first == CHOOSE i \in DOMAIN events :
                          /\ events[i].action_type = "CORRECTIVE_ACTION"
                          /\ \A j \in 1..(i - 1) : events[j].action_type # "CORRECTIVE_ACTION"
         IN  ScanAfter(events, 1, DateOf(events[first].issued_date))

determine_conclusion(events) ==
    IF Len(events) = 1 THEN "SINGLE_EVENT"
    ELSE IF ~HasCorrective(events) THEN "RESET_ONLY_REPEAT"
    ELSE ScanAfter(events, 1, DateOf(events[LastCorrectiveIndex(events)].issued_date))

-----------------------------------------------------------------------------
(* Unit specification of determine_conclusion: every event sequence an     *)
(* event group can hold, i.e. sorted by timestamp with undated events last *)

MaxEvents == 3

ActionTypes == {"RESET_ONLY", "CORRECTIVE_ACTION", "UNKNOWN"}

\* sort_values('Issued_Date'): ascending, NaT last
InDateOrder(a, b) == b = NaT \/ (a # NaT /\ a <= b)

UnitEvents == [action_type : ActionTypes, issued_date : Timestamps \cup {NaT}]

SortedEventSeqs ==
    {es \in UNION {[1..n -> UnitEvents] : n \in 1..MaxEvents} :
        \A i \in 1..(Len(es) - 1) : InDateOrder(es[i].issued_date, es[i + 1].issued_date)}

InitConclusion ==
    /\ fn = "determine_conclusion"
    /\ args \in SortedEventSeqs
    /\ ret = <<>>
    /\ PipelineIdle

CallConclusion ==
    /\ fn = "determine_conclusion"
    /\ ret = <<>>
    /\ ret' = <<determine_conclusion(args)>>
    /\ UNCHANGED <<fn, args>>
    /\ UNCHANGED pipeVars

NextConclusion == CallConclusion

SpecConclusion == InitConclusion /\ [][NextConclusion]_vars

AllDated(events) == \A i \in DOMAIN events : events[i].issued_date # NaT

\* the calendar day of the corrective event that comes last in the sequence
ReferenceDay(events) ==
    LET last == CHOOSE i \in DOMAIN events :
                    /\ events[i].action_type = "CORRECTIVE_ACTION"
                    /\ \A j \in DOMAIN events :
                           events[j].action_type = "CORRECTIVE_ACTION" => j <= i
    IN  events[last].issued_date \div TicksPerDay

RecursAfterFix(events) ==
    \E i \in DOMAIN events :
        events[i].issued_date \div TicksPerDay > ReferenceDay(events)

\* C1: for a chronologically ordered sequence of two or more dated events with
\* at least one corrective event, the conclusion is CORRECTIVE_NOT_EFFECTIVE iff
\* some event's calendar day is strictly later than the day of the last
\* corrective event, and CORRECTIVE_OK otherwise; events of the same calendar day
\* (at any time of day, before or after it in the sequence) are no recurrence.
C1_RecurrenceOnlyStrictlyLaterDay ==
    (/\ fn = "determine_conclusion" /\ ret # <<>>
     /\ Len(args) >= 2 /\ HasCorrective(args) /\ AllDated(args)) =>
        /\ ret[1] = IF RecursAfterFix(args) THEN "CORRECTIVE_NOT_EFFECTIVE"
                    ELSE "CORRECTIVE_OK"
        /\ (\A i \in DOMAIN args :
               args[i].issued_date \div TicksPerDay <= ReferenceDay(args))
           => ret[1] = "CORRECTIVE_OK"

\* reset, corrective, then a reset later the same day: concluded CORRECTIVE_OK
C1_Witness ==
    /\ fn = "determine_conclusion"
    /\ Len(args) = 3
    /\ args[1].action_type = "RESET_ONLY"
    /\ args[2].action_type = "CORRECTIVE_ACTION"
    /\ args[3].action_type = "RESET_ONLY"
    /\ args[3].issued_date > args[2].issued_date
    /\ DateOf(args[3].issued_date) = DateOf(args[2].issued_date)
    /\ DateOf(args[1].issued_date) = DateOf(args[2].issued_date)
    /\ ret = <<"CORRECTIVE_OK">>

\* C2: a sequence of exactly one event is concluded SINGLE_EVENT, whatever the
\* event's classification and date.
C2_SingleEvent ==
    (fn = "determine_conclusion" /\ ret # <<>> /\ Len(args) = 1) =>
        ret[1] = "SINGLE_EVENT"

\* a lone corrective event was concluded SINGLE_EVENT
C2_Witness ==
    /\ fn = "determine_conclusion"
    /\ Len(args) = 1
    /\ args[1].action_type = "CORRECTIVE_ACTION"
    /\ ret = <<"SINGLE_EVENT">>

\* C3: two or more events none of which is corrective are concluded
\* RESET_ONLY_REPEAT, and RESET_ONLY_REPEAT is concluded only for sequences of
\* two or more events without a corrective event.
C3_ResetOnlyRepeat ==
    (fn = "determine_conclusion" /\ ret # <<>>) =>
        (ret[1] = "RESET_ONLY_REPEAT" <=> (Len(args) >= 2 /\ ~HasCorrective(args)))

\* a reset followed by an unclassified event was concluded RESET_ONLY_REPEAT
C3_Witness ==
    /\ fn = "determine_conclusion"
    /\ Len(args) = 2
    /\ args[1].action_type = "RESET_ONLY"
    /\ args[2].action_type = "UNKNOWN"
    /\ ret = <<"RESET_ONLY_REPEAT">>

-----------------------------------------------------------------------------
(* Further properties of determine_conclusion                              *)

\* C25: a sequence of two or more events whose last corrective event has no
\* date is concluded RESET_ONLY_REPEAT, without an error.
C25_UndatedReferenceFallsBack ==
    (/\ fn = "determine_conclusion" /\ ret # <<>>
     /\ Len(args) >= 2 /\ HasCorrective(args)
     /\ \E i \in DOMAIN args :
            /\ args[i].action_type = "CORRECTIVE_ACTION"
            /\ args[i].issued_date = NaT
            /\ \A j \in DOMAIN args : args[j].action_type = "CORRECTIVE_ACTION" => j <= i)
    => ret[1] = "RESET_ONLY_REPEAT"

DayOf(e) == e.issued_date \div TicksPerDay

\* the latest calendar day among the events that satisfy P
LatestDay(events, P(_)) ==
    CHOOSE d \in {DayOf(events[i]) : i \in {j \in DOMAIN events : P(events[j])}} :
        \A i \in DOMAIN events : P(events[i]) => DayOf(events[i]) <= d

IsCorrectiveEvent(e) == e.action_type = "CORRECTIVE_ACTION"

AnyEvent(e) == TRUE

\* the conclusion read off the pairs (calendar day, classification) alone,
\* whatever their order
ConclusionOfPairs(events) ==
    IF Len(events) = 1 THEN "SINGLE_EVENT"
    ELSE IF \A i \in DOMAIN events : ~IsCorrectiveEvent(events[i]) THEN "RESET_ONLY_REPEAT"
    ELSE IF LatestDay(events, AnyEvent) > LatestDay(events, IsCorrectiveEvent)
         THEN "CORRECTIVE_NOT_EFFECTIVE"
    ELSE "CORRECTIVE_OK"

\* C28: for dated events the conclusion is a function of the pairs (calendar
\* day, classification) only: with two or more events and a corrective one it is
\* CORRECTIVE_NOT_EFFECTIVE exactly when the latest day of all events is strictly
\* later than the latest day of the corrective events, so the order of events
\* that share a date, or of the input rows, does not matter.
C28_ConclusionFromDatesAndTypes ==
    (fn = "determine_conclusion" /\ ret # <<>> /\ AllDated(args)) =>
        ret[1] = ConclusionOfPairs(args)

\* two events of one timestamp, the corrective one first, then a later-day
\* reset: concluded CORRECTIVE_NOT_EFFECTIVE; the same-day pair alone is no
\* recurrence
C28_Witness ==
    /\ fn = "determine_conclusion"
    /\ Len(args) = 3
    /\ args[1].action_type = "CORRECTIVE_ACTION"
    /\ args[2].action_type = "RESET_ONLY"
    /\ args[1].issued_date = args[2].issued_date
    /\ args[3].issued_date # NaT
    /\ DayOf(args[3]) > DayOf(args[2])
    /\ ret = <<"CORRECTIVE_NOT_EFFECTIVE">>

\* C29: when the last event of two or more dated events is corrective the
\* conclusion is CORRECTIVE_OK, whatever came before; so a corrective event
\* appended after all others turns any sequence into CORRECTIVE_OK.
C29_LastEventCorrectiveIsOk ==
    (/\ fn = "determine_conclusion" /\ ret # <<>>
     /\ Len(args) >= 2 /\ AllDated(args)
     /\ args[Len(args)].action_type = "CORRECTIVE_ACTION")
    => ret[1] = "CORRECTIVE_OK"

\* a corrective event followed by a later-day reset, then a closing corrective
\* event: concluded CORRECTIVE_OK
C29_Witness ==
    /\ fn = "determine_conclusion"
    /\ Len(args) = 3
    /\ AllDated(args)
    /\ args[1].action_type = "CORRECTIVE_ACTION"
    /\ args[2].action_type = "RESET_ONLY"
    /\ DayOf(args[2]) > DayOf(args[1])
    /\ args[3].action_type = "CORRECTIVE_ACTION"
    /\ ret = <<"CORRECTIVE_OK">>

-----------------------------------------------------------------------------
(* Unit specification of extract_ata_from_text                             *)

MaxDescFrags == 2

MaxActFrags == 1

CitationFragments ==
    { <<"T","S","M",":"," ","7","2","-","3","2">>,
      <<"A","M","M"," ","2","1","-","5","0">>,
      <<"i","p","c"," ","t","a","s","k"," ","3","4","0","1">>,
      <<"F","I","M">>,
      <<" ">>,
      <<":">>,
      <<"2","1","5","0">> }

RecordedAtas == { <<"2","1">>, <<"7","2","3","2">> }

InitExtract ==
    /\ fn = "extract_ata_from_text"
    /\ args \in [description : TextsOf(CitationFragments, MaxDescFrags) \cup {NaN},
                 action : TextsOf(CitationFragments, MaxActFrags) \cup {NaN},
                 original_ata : RecordedAtas]
    /\ ret = <<>>
    /\ PipelineIdle

CallExtract ==
    /\ fn = "extract_ata_from_text"
    /\ ret = <<>>
    /\ ret' = <<extract_ata_from_text(args.description, args.action,
                                      args.original_ata)>>
    /\ UNCHANGED <<fn, args>>
    /\ UNCHANGED pipeVars

NextExtract == CallExtract

SpecExtract == InitExtract /\ [][NextExtract]_vars

\* the chapter a captured code denotes: its first four digits as xx-xx
ChapterOf(code) ==
    LET d == SelectSeq(code, IsDigit)
    IN  <<d[1], d[2], "-", d[3], d[4]>>

\* the chapters cited in text t (upper-cased) by a keyword of the tier: a
\* citation is the keyword followed, at any place of the text, by one of the
\* three surface forms
CitedChapters(t, keywords) ==
    {ChapterOf(MatchPattern(t, i, keywords[k], p)[1]) :
        <<i, k, p>> \in {x \in (1..Len(t)) \X (DOMAIN keywords) \X (1..3) :
                            MatchPattern(t, x[1], keywords[x[2]], x[3]) # <<>>}}

FieldCitations(x) ==
    IF IsNa(x) THEN {}
    ELSE CitedChapters(Upper(x), HighKeywords)
             \cup CitedChapters(Upper(x), MediumKeywords)
             \cup CitedChapters(Upper(x), LowKeywords)

\* C5: whenever the description or the action text holds a citation, also when
\* the other field is missing, the result is a cited chapter and not the
\* fall-back to the recorded chapter.
C5_FallbackOnlyWithoutCitation ==
    (fn = "extract_ata_from_text" /\ ret # <<>>) =>
        LET cited == FieldCitations(args.description) \cup FieldCitations(args.action)
            t == Upper(Str(args.description) \o <<" ">> \o Str(args.action))
            all == CitedChapters(t, HighKeywords) \cup CitedChapters(t, MediumKeywords)
                       \cup CitedChapters(t, LowKeywords)
        IN  cited # {} => ret[1] \in all

-----------------------------------------------------------------------------
(* Unit specification of extract_ata_from_text over texts with several     *)
(* citations of one tier                                                   *)

MaxTieFrags == 3

TieFragments ==
    { <<"T","S","M"," ","2","1","5","0"," ">>,
      <<"T","S","M",":"," ","7","2","3","2"," ">>,
      <<"T","S","M"," ","T","A","S","K"," ","3","4","0","1"," ">>,
      <<"A","F","I",":"," ","5","2","1","0"," ">>,
      <<"I","P","C"," ","2","5","2","0"," ">> }

InitTieBreak ==
    /\ fn = "extract_ata_from_text"
    /\ args \in [description : TextsOf(TieFragments, MaxTieFrags),
                 action : {<<>>},
                 original_ata : {<<"2","1">>}]
    /\ ret = <<>>
    /\ PipelineIdle

SpecTieBreak == InitTieBreak /\ [][NextExtract]_vars

\* keyword kw is cited at position i of text t in surface form p
CitedAt(t, i, kw, p) == MatchPattern(t, i, kw, p) # <<>>

Cites(t, kw) == \E i \in 1..Len(t) : \E p \in 1..3 : CitedAt(t, i, kw, p)

\* the keywords of the highest tier that has a citation in t, or <<>>
WinningTier(t) ==
    IF \E k \in DOMAIN HighKeywords : Cites(t, HighKeywords[k]) THEN HighKeywords
    ELSE IF \E k \in DOMAIN MediumKeywords : Cites(t, MediumKeywords[k]) THEN MediumKeywords
    ELSE IF \E k \in DOMAIN LowKeywords : Cites(t, LowKeywords[k]) THEN LowKeywords
    ELSE <<>>

\* the first keyword, in the tier's order, that is cited in t
FirstCitedKeyword(t, keywords) ==
    keywords[CHOOSE k \in DOMAIN keywords :
                 /\ Cites(t, keywords[k])
                 /\ \A j \in 1..(k - 1) : ~Cites(t, keywords[j])]

\* the chapter of the citation of kw that stands earliest in t, in any form
EarliestCitation(t, kw) ==
    LET i == CHOOSE a \in 1..Len(t) :
                 /\ \E p \in 1..3 : CitedAt(t, a, kw, p)
                 /\ \A b \in 1..(a - 1) : \A p \in 1..3 : ~CitedAt(t, b, kw, p)
        p == CHOOSE f \in 1..3 : CitedAt(t, i, kw, f)
    IN  ChapterOf(MatchPattern(t, i, kw, p)[1])

\* the chapter of the earliest citation of kw among those in the first surface
\* form (in the order colon, TASK, plain) that kw is cited in at all
EarliestOfFirstForm(t, kw) ==
    LET p == CHOOSE f \in 1..3 :
                 /\ \E a \in 1..Len(t) : CitedAt(t, a, kw, f)
                 /\ \A g \in 1..(f - 1) : \A a \in 1..Len(t) : ~CitedAt(t, a, kw, g)
        i == CHOOSE a \in 1..Len(t) :
                 /\ CitedAt(t, a, kw, p)
                 /\ \A b \in 1..(a - 1) : ~CitedAt(t, b, kw, p)
    IN  ChapterOf(MatchPattern(t, i, kw, p)[1])

\* C23 as stated: the result is the chapter of the citation of the winning
\* tier's first cited keyword that occurs earliest in the text, whichever of the
\* three surface forms it uses.
C23_EarliestCitationOfFirstKeyword ==
    (fn = "extract_ata_from_text" /\ ret # <<>>) =>
        LET t == CombinedText(args.description, args.action)
        IN  WinningTier(t) # <<>> =>
                ret[1] = EarliestCitation(t, FirstCitedKeyword(t, WinningTier(t)))

\* C23 amended: the result is the chapter of a citation of the winning tier's
\* first cited keyword; among the citations of that keyword those in the form
\* KEYWORD: CODE come before those in the form KEYWORD TASK CODE, which come
\* before those in the form KEYWORD CODE, and within the first form that
\* occurs the citation earliest in the text is taken.
C23_FirstFormThenEarliest ==
    (fn = "extract_ata_from_text" /\ ret # <<>>) =>
        LET t == CombinedText(args.description, args.action)
        IN  WinningTier(t) # <<>> =>
                ret[1] = EarliestOfFirstForm(t, FirstCitedKeyword(t, WinningTier(t)))

\* "TSM 2150 TSM: 7232 AFI: 5210 ": the colon form of TSM wins over the
\* earlier plain form of TSM and over the other keyword
C23_Witness ==
    /\ fn = "extract_ata_from_text"
    /\ args.description = <<"T","S","M"," ","2","1","5","0"," ">>
                              \o <<"T","S","M",":"," ","7","2","3","2"," ">>
                              \o <<"A","F","I",":"," ","5","2","1","0"," ">>
    /\ ret = << <<"7","2","-","3","2">> >>

-----------------------------------------------------------------------------
(* Red flags and recommendation generator                                  *)
(*                                                                         *)
(* The dict generate_recommendation returns is a record: keys is the set   *)
(* of its keys (empty for {}), the texts are named by the branch that      *)
(* builds them, and the count the severe reset text quotes is kept.        *)

FlaggedConclusions == {"RESET_ONLY_REPEAT", "CORRECTIVE_NOT_EFFECTIVE"}

get_red_flags(rs) == SelectSeq(rs, LAMBDA r : r.conclusion \in FlaggedConclusions)

EmptyDict == [keys |-> {}, history |-> 0, assessment |-> "", recommendation |-> <<>>]

RecommendationKeys ==
    {"history_html", "history_plain", "assessment", "recommendation", "full_html"}

\* pilot_reports after the loop over result.events
PilotReports(events) == Len(SelectSeq(events, LAMBDA e : e.wo_type = "P"))

\* generate_recommendation with the else branch answering like the reset branch
generate_recommendation_always(result) ==
    LET pilot_reports == PilotReports(result.events)
        is_severe == pilot_reports >= 2
    IN  [keys |-> RecommendationKeys,
         history |-> Len(result.events),
         assessment |-> "REPEAT_WITH_RESET_ONLY",
         recommendation |-> IF is_severe
                            THEN <<"GROUND_FOR_ROOT_CAUSE", pilot_reports>>
                            ELSE <<"PROACTIVE_REPLACEMENT">>]

\* generate_recommendation with one pilot report counted as severe
generate_recommendation_one_report(result) ==
    LET pilot_reports == PilotReports(result.events)
        is_severe == pilot_reports >= 1
    IN  IF result.conclusion = "RESET_ONLY_REPEAT"
        THEN [keys |-> RecommendationKeys,
              history |-> Len(result.events),
              assessment |-> "REPEAT_WITH_RESET_ONLY",
              recommendation |-> IF is_severe
                                 THEN <<"GROUND_FOR_ROOT_CAUSE", pilot_reports>>
                                 ELSE <<"PROACTIVE_REPLACEMENT">>]
        ELSE IF result.conclusion = "CORRECTIVE_NOT_EFFECTIVE"
        THEN [keys |-> RecommendationKeys,
              history |-> Len(result.events),
              assessment |-> "RECURS_AFTER_CORRECTIVE",
              recommendation |-> IF is_severe
                                 THEN <<"GROUND_TO_REASSESS_FIX">>
                                 ELSE <<"REVIEW_PREVIOUS_FIX">>]
        ELSE EmptyDict

generate_recommendation(result) ==
    LET pilot_reports == PilotReports(result.events)
        is_severe == pilot_reports >= 2
    IN  IF result.conclusion = "RESET_ONLY_REPEAT"
        THEN [keys |-> RecommendationKeys,
              history |-> Len(result.events),
              assessment |-> "REPEAT_WITH_RESET_ONLY",
              recommendation |-> IF is_severe
                                 THEN <<"GROUND_FOR_ROOT_CAUSE", pilot_reports>>
                                 ELSE <<"PROACTIVE_REPLACEMENT">>]
        ELSE IF result.conclusion = "CORRECTIVE_NOT_EFFECTIVE"
        THEN [keys |-> RecommendationKeys,
              history |-> Len(result.events),
              assessment |-> "RECURS_AFTER_CORRECTIVE",
              recommendation |-> IF is_severe
                                 THEN <<"GROUND_TO_REASSESS_FIX">>
                                 ELSE <<"REVIEW_PREVIOUS_FIX">>]
        ELSE EmptyDict

-----------------------------------------------------------------------------
(* Unit specification of generate_recommendation                           *)

MaxRecEvents == 3

Conclusions ==
    {"SINGLE_EVENT", "RESET_ONLY_REPEAT", "CORRECTIVE_OK", "CORRECTIVE_NOT_EFFECTIVE"}

\* normalized record types: pilot report, maintenance, scheduled, none
WoTypes == {"P", "M", "S", ""}

TypedEvents == UNION {[1..n -> [wo_type : WoTypes]] : n \in 0..MaxRecEvents}

InitRecommend ==
    /\ fn = "generate_recommendation"
    /\ args \in [conclusion : Conclusions, events : TypedEvents]
    /\ ret = <<>>
    /\ PipelineIdle

CallRecommend ==
    /\ fn = "generate_recommendation"
    /\ ret = <<>>
    /\ ret' = <<generate_recommendation(args)>>
    /\ UNCHANGED <<fn, args>>
    /\ UNCHANGED pipeVars

NextRecommend == CallRecommend

SpecRecommend == InitRecommend /\ [][NextRecommend]_vars

\* C15: the result is empty for SINGLE_EVENT and CORRECTIVE_OK, and holds an
\* assessment and a recommendation for RESET_ONLY_REPEAT and
\* CORRECTIVE_NOT_EFFECTIVE, that is exactly for what get_red_flags keeps.
C15_RecommendationExactlyForRedFlags ==
    (fn = "generate_recommendation" /\ ret # <<>>) =>
        /\ args.conclusion \in {"SINGLE_EVENT", "CORRECTIVE_OK"} => ret[1].keys = {}
        /\ args.conclusion \in {"RESET_ONLY_REPEAT", "CORRECTIVE_NOT_EFFECTIVE"} =>
               /\ {"assessment", "recommendation"} \subseteq ret[1].keys
               /\ ret[1].assessment # ""
               /\ ret[1].recommendation # <<>>
        /\ ret[1].keys # {} <=> get_red_flags(<<args>>) = <<args>>

\* a CORRECTIVE_OK result got no recommendation
C15_Witness ==
    /\ fn = "generate_recommendation"
    /\ args.conclusion = "CORRECTIVE_OK" /\ Len(args.events) = 2
    /\ ret = <<EmptyDict>>

GroundingBranches == {"GROUND_FOR_ROOT_CAUSE", "GROUND_TO_REASSESS_FIX"}

\* C16: for a flagged result the grounding branch is selected exactly when two
\* or more events have record type P, under both flagged conclusions.
C16_SevereIffTwoPilotReports ==
    (fn = "generate_recommendation" /\ ret # <<>> /\ args.conclusion \in FlaggedConclusions) =>
        LET pilots == Cardinality({i \in DOMAIN args.events : args.events[i].wo_type = "P"})
        IN  /\ pilots >= 2 <=> ret[1].recommendation[1] \in GroundingBranches
            /\ pilots <= 1 =>
                   ret[1].recommendation[1] \in {"PROACTIVE_REPLACEMENT", "REVIEW_PREVIOUS_FIX"}

\* a flagged result with exactly one pilot report got the non-severe branch
C16_Witness ==
    /\ fn = "generate_recommendation"
    /\ args.conclusion = "CORRECTIVE_NOT_EFFECTIVE"
    /\ args.events = << [wo_type |-> "M"], [wo_type |-> "P"] >>
    /\ ret # <<>> /\ ret[1].recommendation = <<"REVIEW_PREVIOUS_FIX">>

-----------------------------------------------------------------------------
(* Column name normaliser and schema check                                 *)

\* column_mapping: <<lower-case variation, standard name>>, in dict order
column_mapping ==
    << <<<<"a","/","c">>,
         <<"A","/","C">>>>,
       <<<<"a","i","r","c","r","a","f","t">>,
         <<"A","/","C">>>>,
       <<<<"a","c">>,
         <<"A","/","C">>>>,
       <<<<"a","t","a">>,
         <<"A","T","A">>>>,
       <<<<"a","t","a"," ","c","h","a","p","t","e","r">>,
         <<"A","T","A">>>>,
       <<<<"w","o">>,
         <<"W","O">>>>,
       <<<<"w","o","r","k"," ","o","r","d","e","r">>,
         <<"W","O">>>>,
       <<<<"w","o","r","k","o","r","d","e","r">>,
         <<"W","O">>>>,
       <<<<"w","/","o">>,
         <<"W","O">>>>,
       <<<<"w","/","o"," ","a","c","t","i","o","n">>,
         <<"W","/","O"," ","A","c","t","i","o","n">>>>,
       <<<<"w","o","r","k"," ","o","r","d","e","r"," ","a","c","t","i","o","n">>,
         <<"W","/","O"," ","A","c","t","i","o","n">>>>,
       <<<<"a","c","t","i","o","n">>,
         <<"W","/","O"," ","A","c","t","i","o","n">>>>,
       <<<<"w","/","o","_","a","c","t","i","o","n">>,
         <<"W","/","O"," ","A","c","t","i","o","n">>>>,
       <<<<"i","s","s","u","e","d">>,
         <<"I","s","s","u","e","d">>>>,
       <<<<"i","s","s","u","e"," ","d","a","t","e">>,
         <<"I","s","s","u","e","d">>>>,
       <<<<"d","a","t","e"," ","i","s","s","u","e","d">>,
         <<"I","s","s","u","e","d">>>>,
       <<<<"i","s","s","u","e","_","d","a","t","e">>,
         <<"I","s","s","u","e","d">>>>,
       <<<<"i","s","s","u","e","d","_","d","a","t","e">>,
         <<"I","s","s","u","e","d">>>>,
       <<<<"w","/","o"," ","d","e","s","c","r","i","p","t","i","o","n">>,
         <<"W","/","O"," ","D","e","s","c","r","i","p","t","i","o","n">>>>,
       <<<<"w","o","r","k"," ","o","r","d","e","r"," ","d","e","s","c","r","i","p","t","i","o","n">>,
         <<"W","/","O"," ","D","e","s","c","r","i","p","t","i","o","n">>>>,
       <<<<"d","e","s","c","r","i","p","t","i","o","n">>,
         <<"A","T","A"," ","D","e","s","c","r","i","p","t","i","o","n">>>>,
       <<<<"w","/","o","_","d","e","s","c","r","i","p","t","i","o","n">>,
         <<"W","/","O"," ","D","e","s","c","r","i","p","t","i","o","n">>>>,
       <<<<"d","e","s","c">>,
         <<"A","T","A"," ","D","e","s","c","r","i","p","t","i","o","n">>>>,
       <<<<"t","y","p","e">>,
         <<"T","y","p","e">>>>,
       <<<<"w","o"," ","t","y","p","e">>,
         <<"T","y","p","e">>>>,
       <<<<"w","o","r","k"," ","t","y","p","e">>,
         <<"T","y","p","e">>>>,
       <<<<"w","o","_","t","y","p","e">>,
         <<"T","y","p","e">>>>,
       <<<<"w","/","o","_","t","y","p","e">>,
         <<"T","y","p","e">>>>,
       <<<<"r","e","c","o","r","d","_","t","y","p","e">>,
         <<"T","y","p","e">>>> >>

\* column_mapping[col_lower], or <<>> when col_lower is no key
StandardName(col_lower) ==
    IF \E k \in DOMAIN column_mapping : column_mapping[k][1] = col_lower
    THEN LET k == CHOOSE j \in DOMAIN column_mapping : column_mapping[j][1] = col_lower
         IN  <<column_mapping[k][2]>>
    ELSE <<>>

\* the loop that fills new_columns, a list of <<standard name, column>> with one
\* entry per standard name: the first column found is kept, except that a
\* column spelled 'w/o description' replaces an earlier one
RECURSIVE NewColumns(_, _, _)
NewColumns(cols, i, new_columns) ==
    IF i > Len(cols) THEN new_columns
    ELSE LET col == cols[i]
             std == StandardName(Lower(col))
             seen == std # <<>> /\ \E k \in DOMAIN new_columns : new_columns[k][1] = std[1]
         IN  IF std = <<>> THEN NewColumns(cols, i + 1, new_columns)
             ELSE IF ~seen
             THEN NewColumns(cols, i + 1, Append(new_columns, <<std[1], col>>))
             ELSE IF Lower(col) = <<"w","/","o"," ","d","e","s","c","r","i","p","t","i","o","n">>
             THEN NewColumns(cols, i + 1,
                      AsSeq([k \in DOMAIN new_columns |->
                                IF new_columns[k][1] = std[1] THEN <<std[1], col>>
                                ELSE new_columns[k]]))
             ELSE NewColumns(cols, i + 1, new_columns)

\* the column names of normalize_columns(df): names are stripped, and every
\* column whose name was chosen for a standard name is renamed to it
normalize_columns(cols) ==
    LET stripped == AsSeq([i \in DOMAIN cols |-> Strip(cols[i])])
        new_columns == NewColumns(stripped, 1, <<>>)
        Rename(col) ==
            IF \E k \in DOMAIN new_columns : new_columns[k][2] = col
            THEN new_columns[CHOOSE k \in DOMAIN new_columns : new_columns[k][2] = col][1]
            ELSE col
    IN  AsSeq([i \in DOMAIN stripped |-> Rename(stripped[i])])

ColAC == <<"A","/","C">>

ColATA == <<"A","T","A">>

ColAction == <<"W","/","O"," ","A","c","t","i","o","n">>

ColIssued == <<"I","s","s","u","e","d">>

ColDescription == <<"W","/","O"," ","D","e","s","c","r","i","p","t","i","o","n">>

ColType == <<"T","y","p","e">>

required_cols == <<ColAC, ColATA, ColAction, ColIssued>>

\* missing_cols
MissingCols(cols) == SelectSeq(required_cols, LAMBDA c : c \notin Range(cols))

\* the number of columns that carry the name c
CountOf(cols, c) == Cardinality({i \in DOMAIN cols : cols[i] = c})

-----------------------------------------------------------------------------
(* analyze_work_orders                                                     *)
(*                                                                         *)
(* A row of df carries the columns A/C (ac), ATA (ata), W/O Description    *)
(* (wo_desc), W/O Action (action) and Issued, the latter already as        *)
(* pd.to_datetime(errors='coerce') reads it (issued: a timestamp or NaT).  *)
(* The optional column ATA Description is absent, so row.get gives ''.     *)
(* idx is the row's index label, which pandas carries through every step.  *)

\* characters in code-point order, for the ordering of group keys
CodePoints ==
    <<"\t", "\n", " ", "-">> \o DigitChars \o <<":">> \o UpperLetters \o LowerLetters

Ord(c) == CHOOSE i \in DOMAIN CodePoints : CodePoints[i] = c

\* s < t on Python strings
RECURSIVE StrLess(_, _)
StrLess(s, t) ==
    IF t = <<>> THEN FALSE
    ELSE IF s = <<>> THEN TRUE
    ELSE IF Head(s) = Head(t) THEN StrLess(Tail(s), Tail(t))
    ELSE Ord(Head(s)) < Ord(Head(t))

\* (aircraft, chapter) keys in the order groupby(sort=True) yields them
KeyLeq(a, b) ==
    \/ StrLess(a[1], b[1])
    \/ a[1] = b[1] /\ (a[2] = b[2] \/ StrLess(a[2], b[2]))

RECURSIVE SortKeys(_)
SortKeys(S) ==
    IF S = {} THEN <<>>
    ELSE LET m == CHOOSE k \in S : \A o \in S : KeyLeq(k, o)
         IN  <<m>> \o SortKeys(S \ {m})

\* filter_data with the mask left out
filter_data_keep_all(rows) == rows

\* filter_data: the rows whose raw chapter is not excluded, in order
filter_data(rows) == SelectSeq(rows, LAMBDA r : ~should_exclude_ata(r.ata))

\* the grouping key taken from the recorded chapter alone
AtaCorrected_raw(r) == format_ata(r.ata)

\* df_filtered['ATA Corrected']: the description argument is
\* str(W/O Description) + " " + str(ATA Description)
AtaCorrected(r) ==
    extract_ata_from_text(Str(r.wo_desc) \o <<" ">>, r.action, r.ata)

\* groupby(['A/C', 'ATA Corrected']): rows with a missing key are dropped
GroupKeys(rows) ==
    {<<rows[i].ac, rows[i].ata_corrected>> : i \in {j \in DOMAIN rows : ~IsNa(rows[j].ac)}}

GroupRows(rows, key) ==
    SelectSeq(rows, LAMBDA r : r.ac = key[1] /\ r.ata_corrected = key[2])

\* group.sort_values('Issued_Date'): the default kind='quicksort' is not a
\* stable sort, so dated rows come out in any order that is ascending by
\* timestamp; the NaT rows follow, in their original order
SortOutcomes(group) ==
    LET n == Len(group)
        dated == {i \in 1..n : group[i].issued # NaT}
        undated == {i \in 1..n : group[i].issued = NaT}
    IN  {[k \in 1..n |-> group[p[k]]] :
            p \in {q \in [1..n -> 1..n] :
                    /\ \A a, b \in 1..n : a # b => q[a] # q[b]
                    /\ \A a, b \in 1..n : a < b =>
                          \/ q[a] \in dated /\ q[b] \in dated
                               /\ group[q[a]].issued <= group[q[b]].issued
                          \/ q[a] \in dated /\ q[b] \in undated
                          \/ q[a] \in undated /\ q[b] \in undated /\ q[a] < q[b]}}

\* the WorkOrderEvent of a row: the classification is taken from the cell as it
\* is in the table (line 495), the action text is the cleaned one (line 504);
\* row is the index label of the row it derives from
EventOf(r) ==
    [action |-> clean_amos_metadata(r.action),
     action_type |-> classify_action(r.action),
     issued_date |-> r.issued,
     row |-> r.idx]

\* strftime('%d/%m/%Y') of a timestamp, the time of day dropped; day d of the
\* model is printed as the d-th of January 2024
DateStr(ts) ==
    <<"0", DigitChars[(ts \div TicksPerDay) + 1], "/", "0", "1", "/", "2", "0", "2", "4">>

\* line 519
DatesOf(events) ==
    AsSeq([i \in DOMAIN events |->
              IF events[i].issued_date # NaT THEN DateStr(events[i].issued_date)
              ELSE <<>>])

\* create_timeline_summary: NaT is an instance of datetime, and NaT.strftime raises
TimelineRaises(events) == \E i \in DOMAIN events : events[i].issued_date = NaT

\* line 349: normalize_columns assigns the stripped names to df.columns of the
\* table it is handed, which is the caller's; the renaming that follows
\* (df.rename) works on a copy
StrippedColumns(cols) == AsSeq([i \in DOMAIN cols |-> Strip(cols[i])])

\* lines 437-458. columns and df are the caller's table. With two columns named
\* Type, df['Type'] is a DataFrame and its apply hands normalize_type a whole
\* column, whose truth value raises (when the table has rows). A missing
\* required column returns the empty list.
CheckColumns ==
    /\ pc = "start"
    /\ columns' = StrippedColumns(columns)
    /\ LET cols == normalize_columns(columns)
       IN  pc' = IF CountOf(cols, ColType) >= 2 /\ df # <<>> THEN "raised"
                 ELSE IF MissingCols(cols) # <<>> THEN "done"
                 ELSE "checked"
    /\ UNCHANGED <<df, df_filtered, pending, results>>
    /\ UNCHANGED unitVars

\* lines 460-464
FilterData ==
    /\ pc = "checked"
    /\ LET kept == filter_data(df)
       IN  /\ df_filtered' = AsSeq([i \in DOMAIN kept |->
                                        kept[i] @@ [ata_corrected |-> <<>>]])
           /\ pc' = IF kept = <<>> THEN "done" ELSE "filtered"
    /\ UNCHANGED <<columns, df, pending, results>>
    /\ UNCHANGED unitVars

\* lines 466-485
CorrectAta ==
    /\ pc = "filtered"
    /\ df_filtered' = AsSeq([i \in DOMAIN df_filtered |->
                                [df_filtered[i] EXCEPT
                                    !.ata_corrected = AtaCorrected(df_filtered[i])]])
    /\ pending' = SortKeys(GroupKeys(df_filtered'))
    /\ pc' = "grouping"
    /\ UNCHANGED <<columns, df, results>>
    /\ UNCHANGED unitVars

\* one iteration of the loop over grouped, lines 488-536
ProcessGroup ==
    /\ pc = "grouping"
    /\ pending # <<>>
    /\ LET key == Head(pending)
           group == GroupRows(df_filtered, key)
       IN  \E group_sorted \in SortOutcomes(group) :
              LET events == AsSeq([i \in DOMAIN group_sorted |->
                                       EventOf(group_sorted[i])])
                  conclusion == determine_conclusion(events)
              IN  IF conclusion = "TypeError" \/ TimelineRaises(events)
                  THEN /\ pc' = "raised"
                       /\ UNCHANGED <<pending, results>>
                  ELSE /\ results' = Append(results,
                              [aircraft |-> key[1],
                               ata |-> key[2],
                               ata_2digit |-> get_ata_2digit(group[1].ata_corrected),
                               wo_count |-> Len(events),
                               conclusion |-> conclusion,
                               dates |-> DatesOf(events),
                               events |-> events])
                       /\ pending' = Tail(pending)
                       /\ pc' = pc
    /\ UNCHANGED <<columns, df, df_filtered>>
    /\ UNCHANGED unitVars

\* line 538
Return ==
    /\ pc = "grouping"
    /\ pending = <<>>
    /\ pc' = "done"
    /\ UNCHANGED <<columns, df, df_filtered, pending, results>>
    /\ UNCHANGED unitVars

NextAnalyze == CheckColumns \/ FilterData \/ CorrectAta \/ ProcessGroup \/ Return

-----------------------------------------------------------------------------
(* Specification of analyze_work_orders over small tables                  *)

MaxRows == 3

PlainText == <<"F","A","U","L","T">>

CitingText == <<"T","S","M"," ","7","2","-","3","2">>

ResetText == <<"R","E","S","E","T">>

ReplacedText == <<"R","E","P","L","A","C","E","D">>

\* the rows a table is made of: <<A/C, ATA, W/O Description, W/O Action, day>>,
\* day 0 standing for an unparsable Issued cell
RowCatalogue ==
    { << <<"A","1">>, <<"2","1">>,         PlainText,  ResetText,    1 >>,
      << <<"A","1">>, <<"2","1">>,         CitingText, ResetText,    1 >>,
      << <<"A","1">>, <<"2","1">>,         CitingText, ResetText,    2 >>,
      << <<"A","1">>, <<"7","2","3","2">>, PlainText,  ReplacedText, 1 >>,
      << <<"A","1">>, <<"2","1">>,         CitingText, NaN,          1 >>,
      << <<"A","2">>, <<"2","1">>,         PlainText,  ResetText,    1 >>,
      << <<"A","1">>, <<"2","1">>,         PlainText,  ResetText,    0 >>,
      << <<"A","1">>, <<"2","5">>,         CitingText, ResetText,    1 >> }

Tables == UNION {[1..n -> RowCatalogue] : n \in 0..MaxRows}

\* pd.to_datetime(df_filtered['Issued'], errors='coerce'), at midnight
ToDatetime(day) == IF day = 0 THEN NaT ELSE day * TicksPerDay

RowOf(t, i) ==
    [idx |-> i, ac |-> t[i][1], ata |-> t[i][2], wo_desc |-> t[i][3],
     action |-> t[i][4], issued |-> ToDatetime(t[i][5])]

\* the header of a table that has the columns of RowCatalogue
StandardHeader == <<ColAC, ColATA, ColDescription, ColAction, ColIssued>>

InitAnalyze ==
    /\ fn = "none" /\ args = <<>> /\ ret = <<>>
    /\ pc = "start"
    /\ columns = StandardHeader
    /\ \E t \in Tables : df = AsSeq([i \in DOMAIN t |-> RowOf(t, i)])
    /\ df_filtered = <<>>
    /\ pending = <<>>
    /\ results = <<>>

SpecAnalyze == InitAnalyze /\ [][NextAnalyze]_vars

-----------------------------------------------------------------------------
(* Specification of analyze_work_orders over tables with any selection of  *)
(* columns. No two column names of the catalogue stand for the same        *)
(* required field; the record type has two spellings.                      *)

MaxSchemaRows == 1

\* column names as files spell them
HeaderCatalogue ==
    << <<"a","i","r","c","r","a","f","t">>,
       <<" ","A","T","A"," ">>,
       <<"A","c","t","i","o","n">>,
       <<"i","s","s","u","e"," ","d","a","t","e">>,
       <<"W","O"," ","T","y","p","e">>,
       <<"T","y","p","e">> >>

RECURSIVE Reverse(_)
Reverse(seq) == IF seq = <<>> THEN <<>> ELSE Append(Reverse(Tail(seq)), Head(seq))

\* the columns of catalogue whose position is in keep, in catalogue order
RECURSIVE Selection(_, _, _)
Selection(catalogue, keep, i) ==
    IF i > Len(catalogue) THEN <<>>
    ELSE (IF i \in keep THEN <<catalogue[i]>> ELSE <<>>)
             \o Selection(catalogue, keep, i + 1)

Headers ==
    {Selection(HeaderCatalogue, keep, 1) : keep \in SUBSET DOMAIN HeaderCatalogue}
    \cup {Selection(Reverse(HeaderCatalogue), keep, 1) : keep \in SUBSET DOMAIN HeaderCatalogue}

\* a reset signed off by a user whose name holds a corrective keyword
SignedResetText == <<"R","E","S","E","T","\n","P","E","R","F","O","R","M","E","D"," ","S","I","G","N"," ","M","O","D","1">>

\* a reset whose action text cites a task of chapter 25
CitingExcludedText == <<"R","E","S","E","T"," ","T","S","M"," ","2","5","1","0">>

SchemaRows ==
    { << <<"A","1">>, <<"2","1">>, <<>>, ResetText,          1 >>,
      << <<"A","1">>, <<"2","1">>, <<>>, ReplacedText,       2 >>,
      << <<"A","1">>, <<"2","5">>, <<>>, ResetText,          1 >>,
      << <<"A","1">>, <<"2","1">>, <<>>, SignedResetText,    1 >>,
      << <<"A","1">>, <<"2","1">>, <<>>, CitingExcludedText, 1 >>,
      << NaN,         <<"2","1">>, <<>>, ResetText,          1 >> }

SchemaTables == UNION {[1..n -> SchemaRows] : n \in 0..MaxSchemaRows}

InitSchema ==
    /\ fn = "none" /\ args = <<>> /\ ret = <<>>
    /\ pc = "start"
    /\ columns \in Headers
    /\ \E t \in SchemaTables : df = AsSeq([i \in DOMAIN t |-> RowOf(t, i)])
    /\ df_filtered = <<>>
    /\ pending = <<>>
    /\ results = <<>>

SpecSchema == InitSchema /\ [][NextAnalyze]_vars

\* a required field is absent after the column names are normalised
RequiredFieldAbsent ==
    \E c \in {ColAC, ColATA, ColAction, ColIssued} : c \notin Range(normalize_columns(columns))

\* C18: when a required field is absent after column-name normalization the
\* call returns the empty list without raising, whatever the rows contain.
C18_SchemaErrorReturnsEmpty ==
    RequiredFieldAbsent =>
        /\ pc \in {"start", "done"}
        /\ results = <<>>

\* C21: analyze_work_orders leaves the caller's table as it was: no step of
\* the call changes its column names, its rows or its cell values.
C21_InputTableUnchanged == [][columns' = columns /\ df' = df]_vars

-----------------------------------------------------------------------------
(* Properties of the groups analyze_work_orders returns                    *)

ResultSet == {results[i] : i \in DOMAIN results}

\* the index labels of the rows the events of a result derive from
EventRows(r) == {r.events[i].row : i \in DOMAIN r.events}

Chapter7232 == <<"7","2","-","3","2">>

Chapter2100 == <<"2","1","-","0","0">>

CitesTsm7232(text) == Contains(Upper(Str(text)), CitingText)

\* one aircraft, two rows recorded under chapter 21, exactly one of which has
\* the citation TSM 72-32 in its description
TwoRowsOneCiting ==
    /\ Len(df) = 2
    /\ df[1].ac = df[2].ac
    /\ df[1].ata = <<"2","1">> /\ df[2].ata = <<"2","1">>
    /\ CitesTsm7232(df[1].wo_desc) # CitesTsm7232(df[2].wo_desc)

\* the row of that table whose description holds no citation
PlainRow == CHOOSE i \in 1..2 : ~CitesTsm7232(df[i].wo_desc)

\* C6 as stated: both rows end in one group keyed 72-32 and no group is keyed
\* 21-00 (here for tables whose action texts are all present).
C6_BothRowsUnderCitedChapter ==
    (pc = "done" /\ TwoRowsOneCiting /\ \A i \in DOMAIN df : ~IsNa(df[i].action)) =>
        /\ \E r \in ResultSet : r.ata = Chapter7232 /\ EventRows(r) = {1, 2}
        /\ \A r \in ResultSet : r.ata # Chapter2100

\* C6 amended: each row is keyed by its own corrected chapter, so the row
\* without the citation is placed in the group keyed 21-00 and in no group
\* keyed 72-32; the two rows never share a group keyed 72-32.
C6_EachRowUnderItsOwnChapter ==
    (pc = "done" /\ TwoRowsOneCiting) =>
        /\ \E r \in ResultSet : r.ata = Chapter2100 /\ PlainRow \in EventRows(r)
        /\ \A r \in ResultSet : r.ata = Chapter7232 => PlainRow \notin EventRows(r)

\* the citing row was grouped under 72-32 and the other row under 21-00
C6_Witness ==
    /\ pc = "done" /\ TwoRowsOneCiting
    /\ \E r \in ResultSet : r.ata = Chapter7232 /\ EventRows(r) = {3 - PlainRow}
    /\ \E r \in ResultSet : r.ata = Chapter2100 /\ EventRows(r) = {PlainRow}

\* the Chapter Corrector's output for a row of the table
CorrectedChapter(row) ==
    extract_ata_from_text(Str(row.wo_desc) \o <<" ">>, row.action, row.ata)

\* the rows that pass the Chapter Filter
Surviving == {i \in DOMAIN df : ~should_exclude_ata(df[i].ata)}

SameGroup(i, j) == \E r \in ResultSet : i \in EventRows(r) /\ j \in EventRows(r)

\* C7: in the list analyze_work_orders returns, every event of a result
\* derives from a record of the result's aircraft whose corrected chapter is the
\* result's chapter, and two surviving records of one aircraft are in the same
\* group exactly when their corrected chapters are equal.
C7_GroupedByAircraftAndCorrectedChapter ==
    pc = "done" =>
        LET corrected == AsSeq([i \in DOMAIN df |-> CorrectedChapter(df[i])])
        IN  /\ \A r \in ResultSet : \A i \in EventRows(r) :
                   /\ df[i].ac = r.aircraft
                   /\ corrected[i] = r.ata
            /\ \A i, j \in Surviving :
                   df[i].ac = df[j].ac =>
                       (SameGroup(i, j) <=> corrected[i] = corrected[j])

\* a row recorded under 21 and corrected to 72-32 shares a group with a row
\* recorded under 7232, while a third row of the aircraft stays under 21-00
C7_Witness ==
    /\ pc = "done"
    /\ \E i, j, k \in DOMAIN df :
           /\ df[i].ata = <<"2","1">> /\ df[j].ata = <<"7","2","3","2">>
           /\ df[k].ac = df[i].ac
           /\ SameGroup(i, j) /\ SameGroup(k, k) /\ ~SameGroup(i, k)

\* C8 as stated: the events of every result are in non-decreasing date order,
\* and events of equal date keep the order of the input records.
C8_SortedAndStable ==
    \A r \in ResultSet : \A a, b \in DOMAIN r.events :
        a < b =>
            /\ r.events[a].issued_date <= r.events[b].issued_date
            /\ r.events[a].issued_date = r.events[b].issued_date
                   => r.events[a].row < r.events[b].row

\* C11: no event of any result derives from a record whose raw chapter code the
\* Chapter Filter excludes, and every result's event count counts its events,
\* all of them from surviving records.
C11_ExcludedRecordsDropped ==
    \A r \in ResultSet :
        /\ \A i \in EventRows(r) : ~should_exclude_ata(df[i].ata)
        /\ r.wo_count = Cardinality(EventRows(r))
        /\ r.wo_count <= Cardinality(Surviving)

\* a table with an excluded record (chapter 25, citing TSM 72-32) next to a
\* surviving one has been analysed, and a group was returned
C11_Witness ==
    /\ pc = "done"
    /\ results # <<>>
    /\ \E i, j \in DOMAIN df :
           /\ should_exclude_ata(df[i].ata) /\ CitesTsm7232(df[i].wo_desc)
           /\ ~should_exclude_ata(df[j].ata) /\ df[j].ac = df[i].ac

\* C19: the call never raises, and every surviving record whose issue date could
\* not be parsed is a classified event with a null date of a returned group,
\* placed after all dated events of that group.
C19_UndatedRecordsTolerated ==
    /\ pc # "raised"
    /\ pc = "done" =>
           \A i \in Surviving :
               df[i].issued = NaT =>
                   \E r \in ResultSet : \E a \in DOMAIN r.events :
                       /\ r.events[a].row = i
                       /\ r.events[a].issued_date = NaT
                       /\ r.events[a].action_type = classify_action(df[i].action)
                       /\ \A b \in DOMAIN r.events :
                              r.events[b].issued_date # NaT => b < a

\* C24: the classification stored on every event is classify_action of the
\* event's sanitized action text, so a removed boilerplate line has no
\* influence on it.
C24_ClassifiedAfterSanitizing ==
    \A r \in ResultSet : \A a \in DOMAIN r.events :
        r.events[a].action_type = classify_action(r.events[a].action)

\* C26: no result is keyed by a chapter the Chapter Filter excludes, also when
\* the key was obtained from a citation in the free text.
C26_NoResultUnderExcludedChapter ==
    \A r \in ResultSet : ~should_exclude_ata(r.ata)

RECURSIVE SumWoCount(_)
SumWoCount(rs) == IF rs = <<>> THEN 0 ELSE Head(rs).wo_count + SumWoCount(Tail(rs))

\* C27: when the call returns on a table that has the required columns, every
\* record that passes the Chapter Filter is an event of exactly one result, and
\* the event counts add up to the number of surviving records, also for records
\* without an aircraft id.
C27_GroupsPartitionSurvivors ==
    (pc = "done" /\ ~RequiredFieldAbsent) =>
        /\ \A i \in Surviving :
               Cardinality({k \in DOMAIN results : i \in EventRows(results[k])}) = 1
        /\ SumWoCount(results) = Cardinality(Surviving)

\* the text of a chapter key before its dash
MajorChapterOf(ata) ==
    LET dash == CHOOSE i \in DOMAIN ata : ata[i] = "-" /\ \A j \in 1..(i - 1) : ata[j] # "-"
    IN  SubSeq(ata, 1, dash - 1)

\* C30: the results of one call have pairwise distinct (aircraft, chapter)
\* keys; each result has at least one event, its event count is the number of
\* its events and of its date strings, and its major chapter is the one
\* extracted from its chapter.
C30_ResultsWellFormed ==
    /\ \A i, j \in DOMAIN results :
           i # j => <<results[i].aircraft, results[i].ata>>
                        # <<results[j].aircraft, results[j].ata>>
    /\ \A r \in ResultSet :
           /\ Len(r.events) >= 1
           /\ r.wo_count = Len(r.events)
           /\ r.wo_count = Len(r.dates)
           /\ r.ata_2digit = MajorChapterOf(r.ata)

\* a call returned two results for one aircraft, one of them with two events
C30_Witness ==
    /\ pc = "done"
    /\ \E i, j \in DOMAIN results :
           /\ i # j
           /\ results[i].aircraft = results[j].aircraft
           /\ results[i].wo_count = 2
           /\ Len(results[i].dates) = 2

-----------------------------------------------------------------------------
(* Heat map builder                                                        *)
(*                                                                         *)
(* The DataFrame is a record: index holds the row labels, columns the      *)
(* column labels, cells[i][j] the marker of row i and column j. RED stands *)
(* for the red circle, ORANGE for the orange one.                          *)

\* sorted(set(...)) on strings
RECURSIVE SortStrings(_)
SortStrings(S) ==
    IF S = {} THEN <<>>
    ELSE LET m == CHOOSE x \in S : \A o \in S : o = x \/ StrLess(x, o)
         IN  <<m>> \o SortStrings(S \ {m})

\* pd.DataFrame()
EmptyFrame == [index |-> <<>>, columns |-> <<>>, cells |-> <<>>]

\* f"ATA {ata}"
AtaLabel(ata) == <<"A","T","A"," ">> \o ata

\* lines 679-704, for the list of results the grid is built from
BuildMatrix(red_flags) ==
    LET aircraft_list == SortStrings({red_flags[i].aircraft : i \in DOMAIN red_flags})
        ata_list == SortStrings({red_flags[i].ata_2digit : i \in DOMAIN red_flags})
        Cell(aircraft, ata) ==
            LET matching == SelectSeq(red_flags,
                                LAMBDA r : r.aircraft = aircraft /\ r.ata_2digit = ata)
                conclusions == {matching[i].conclusion : i \in DOMAIN matching}
            IN  IF matching # <<>>
                THEN IF "CORRECTIVE_NOT_EFFECTIVE" \in conclusions THEN "RED" ELSE "ORANGE"
                ELSE ""
    IN  [index |-> aircraft_list,
         columns |-> AsSeq([j \in DOMAIN ata_list |-> AtaLabel(ata_list[j])]),
         cells |-> AsSeq([i \in DOMAIN aircraft_list |->
                       AsSeq([j \in DOMAIN ata_list |-> Cell(aircraft_list[i], ata_list[j])])])]

\* the grid built from every result, flagged or not
create_tic_tac_matrix_unfiltered(rs) ==
    IF rs = <<>> THEN EmptyFrame ELSE BuildMatrix(rs)

create_tic_tac_matrix(rs) ==
    LET red_flags == get_red_flags(rs)
    IN  IF red_flags = <<>> THEN EmptyFrame ELSE BuildMatrix(red_flags)

-----------------------------------------------------------------------------
(* Unit specification of create_tic_tac_matrix                             *)

MaxResults == 3

MatrixAircraft == { <<"A","1">>, <<"A","2">> }

MatrixChapters == { <<"2","1">>, <<"7","2">> }

ResultLists ==
    UNION {[1..n -> [aircraft : MatrixAircraft, ata_2digit : MatrixChapters,
                     conclusion : Conclusions]] : n \in 0..MaxResults}

InitMatrix ==
    /\ fn = "create_tic_tac_matrix"
    /\ args \in ResultLists
    /\ ret = <<>>
    /\ PipelineIdle

CallMatrix ==
    /\ fn = "create_tic_tac_matrix"
    /\ ret = <<>>
    /\ ret' = <<create_tic_tac_matrix(args)>>
    /\ UNCHANGED <<fn, args>>
    /\ UNCHANGED pipeVars

NextMatrix == CallMatrix

SpecMatrix == InitMatrix /\ [][NextMatrix]_vars

\* the flagged results of the argument
FlaggedIn(rs) ==
    {rs[i] : i \in {j \in DOMAIN rs :
                      rs[j].conclusion \in {"RESET_ONLY_REPEAT", "CORRECTIVE_NOT_EFFECTIVE"}}}

StrictlyAscending(labels) ==
    \A i, j \in DOMAIN labels : i < j => StrLess(labels[i], labels[j])

\* C17: the rows are the sorted distinct aircraft and the columns the sorted
\* distinct major chapters of the flagged results only; a cell is severe when
\* some flagged result there is CORRECTIVE_NOT_EFFECTIVE, warning when there are
\* flagged results and all are RESET_ONLY_REPEAT, empty when there is none; with
\* no flagged result the grid is empty.
C17_MatrixOverFlaggedResults ==
    (fn = "create_tic_tac_matrix" /\ ret # <<>>) =>
        LET flagged == FlaggedIn(args)
            grid == ret[1]
        IN  /\ flagged = {} => grid = EmptyFrame
            /\ Range(grid.index) = {r.aircraft : r \in flagged}
            /\ Range(grid.columns) = {AtaLabel(r.ata_2digit) : r \in flagged}
            /\ StrictlyAscending(grid.index)
            /\ StrictlyAscending(grid.columns)
            /\ \A i \in DOMAIN grid.index : \A j \in DOMAIN grid.columns :
                   LET here == {r \in flagged :
                                   /\ r.aircraft = grid.index[i]
                                   /\ AtaLabel(r.ata_2digit) = grid.columns[j]}
                   IN  grid.cells[i][j] =
                           IF \E r \in here : r.conclusion = "CORRECTIVE_NOT_EFFECTIVE"
                           THEN "RED"
                           ELSE IF here # {} THEN "ORANGE" ELSE ""

\* a grid with a severe cell, a warning cell and an empty cell was built while
\* an unflagged result was left out
C17_Witness ==
    /\ fn = "create_tic_tac_matrix"
    /\ Len(args) = 3
    /\ \E i \in DOMAIN args : args[i].conclusion = "CORRECTIVE_OK"
    /\ ret # <<>>
    /\ \E i, j, k, l \in 1..2 :
           /\ i \in DOMAIN ret[1].index /\ k \in DOMAIN ret[1].index
           /\ j \in DOMAIN ret[1].columns /\ l \in DOMAIN ret[1].columns
           /\ ret[1].cells[i][j] = "RED" /\ ret[1].cells[k][l] = "ORANGE"
    /\ \E i \in DOMAIN ret[1].index : \E j \in DOMAIN ret[1].columns :
           ret[1].cells[i][j] = ""

====
